---- MODULE Spec2Model ----
(***************************************************************************)
(* A model of the ray tracer: the bounding boxes and the slab test         *)
(* (bounds.rs, interval.rs), the sphere intersection (sphere.rs), the      *)
(* linear scan (hit.rs), the bounding volume hierarchy (bvh.rs), the       *)
(* camera constructor (camera.rs), the materials (material.rs), ray_color  *)
(* and the row dispatcher of main (main.rs).                               *)
(*                                                                         *)
(* Numbers.  The program computes in f64.  The model computes in exact     *)
(* integers and draws its inputs from grids on which every quotient and    *)
(* square root the code takes is exact (sphere centres and radii are even, *)
(* ray direction components are -1, 0 or 1, and a ray is cast at a scene   *)
(* only when every discriminant it meets is a perfect square with an       *)
(* integral root), so that on these inputs the integer value is the value  *)
(* the f64 computation yields.  The midpoint of a box is the one place     *)
(* where construction is also given odd coordinates: the integers then     *)
(* stand for consecutive f64 values, and the halved sum is rounded as f64  *)
(* rounds it, to the nearest value with ties to even.  NaN inputs are      *)
(* excluded (the code debug_asserts them away).                            *)
(***************************************************************************)
EXTENDS Integers, Sequences, FiniteSets, TLC

VARIABLES
    \* build profile: TRUE = debug assertions and overflow checks compiled in
    debug_build,
    \* ---- dispatcher (main.rs: main) ----
    num_threads, image_width, image_height, rays_per_pixel, world,
    x_total, y_total,
    main_pc, next_y, inputs, inputs_open, outputs,
    worker_pc, worker_y, rng_pos,
    data, rows_remaining, image, written,
    \* ---- camera (camera.rs: Camera::new) ----
    cam_up, cam_look_from, cam_look_at, cam_result,
    \* ---- bounds (bounds.rs) ----
    corner_a, corner_b, box_self, box_other, box_union, box_extent, box_op,
    \* ---- bvh (bvh.rs) ----
    scene, bvh, ray, t_min, t_max, bvh_result, scan_result,
    \* ---- one call of Bounds3::hit_by, axis by axis (bounds.rs) ----
    slab_box, slab_interval, slab_axis, slab_result,
    \* ---- one linear scan, object by object (hit.rs) ----
    scan_i, closest_so_far,
    \* ---- one call of Sphere::hit on scene[1] (sphere.rs) ----
    sphere_pc, sphere_result,
    \* ---- one call of ray_color, frame by frame (main.rs) ----
    rc_pc, rc_max_depth, rc_depth, rc_ray, rc_hit, rc_stack, rc_queries, rc_value

renderVars == <<num_threads, image_width, image_height, rays_per_pixel, world,
                x_total, y_total, main_pc, next_y, inputs, inputs_open, outputs,
                worker_pc, worker_y, rng_pos, data, rows_remaining, image, written>>
cameraVars == <<cam_up, cam_look_from, cam_look_at, cam_result>>
boundsVars == <<corner_a, corner_b, box_self, box_other, box_union, box_extent, box_op>>
slabVars   == <<slab_box, slab_interval, slab_axis, slab_result>>
scanVars   == <<scan_i, closest_so_far>>
bvhVars    == <<scene, bvh, ray, t_min, t_max, bvh_result, scan_result,
                slabVars, scanVars>>
sphereVars == <<sphere_pc, sphere_result>>
colorVars  == <<rc_pc, rc_max_depth, rc_depth, rc_ray, rc_hit, rc_stack, rc_queries, rc_value>>
traceVars  == <<sphereVars, colorVars>>
vars       == <<debug_build, renderVars, cameraVars, boundsVars, bvhVars, traceVars>>

(***************************************************************************)
(* Bounds of the model.                                                    *)
(***************************************************************************)
MaxHeight  == 3      \* image_height ranges over 0..MaxHeight
MaxWidth   == 2      \* image_width ranges over 0..MaxWidth
MaxThreads == 2      \* num_threads ranges over 0..MaxThreads
MaxRays    == 1      \* rays_per_pixel ranges over 1..MaxRays
MaxCoord   == 2      \* box corners have x in 0..MaxCoord (y and z in 0..1)
MaxCam     == 1      \* camera vectors have components in -MaxCam..MaxCam
MaxItems   == 3      \* a scene holds 0..MaxItems primitives
MaxDepth   == 3      \* ray_color is called with depth in 0..MaxDepth

(***************************************************************************)
(* Option<T>: None is the empty sequence, Some(x) the one-element one.     *)
(***************************************************************************)
None == <<>>
Some(x) == <<x>>
IsSome(o) == o # <<>>
Unwrap(o) == o[1]

(***************************************************************************)
(* f64 helpers on the model's integers.                                    *)
(***************************************************************************)
Min(a, b) == IF a <= b THEN a ELSE b
Max(a, b) == IF a >= b THEN a ELSE b
Abs(a) == IF a < 0 THEN -a ELSE a

\* a / b for b # 0, rounded toward minus infinity (exact on the model's inputs)
Div(a, b) == IF b > 0 THEN a \div b ELSE (-a) \div (-b)

RECURSIVE SqrtFrom(_, _)
SqrtFrom(n, k) == IF (k + 1) * (k + 1) > n THEN k ELSE SqrtFrom(n, k + 1)
\* f64::sqrt for n >= 0, rounded down (exact when n is a perfect square)
Sqrt(n) == SqrtFrom(n, 0)
IsSquare(n) == n >= 0 /\ Sqrt(n) * Sqrt(n) = n

\* f64::INFINITY: larger than every parameter the model computes
Infinity == 1000

(***************************************************************************)
(* vec3.rs: Vec3 is <<x, y, z>>; axis.rs: Axis3 X, Y, Z are 1, 2, 3.       *)
(***************************************************************************)
Axes == 1..3
X == 1
Y == 2
Z == 3

VecAdd(a, b) == [i \in Axes |-> a[i] + b[i]]
VecSub(a, b) == [i \in Axes |-> a[i] - b[i]]
VecScale(k, a) == [i \in Axes |-> k * a[i]]
VecNeg(a) == VecScale(-1, a)
Dot(a, b) == a[1] * b[1] + a[2] * b[2] + a[3] * b[3]
NormSquared(a) == Dot(a, a)
Cross(a, b) == <<a[2] * b[3] - a[3] * b[2],
                 a[3] * b[1] - a[1] * b[3],
                 a[1] * b[2] - a[2] * b[1]>>
VecOrigin == <<0, 0, 0>>

\* ray.rs: Ray::at
RayAt(r, t) == VecAdd(r.origin, VecScale(t, r.direction))

(***************************************************************************)
(* interval.rs                                                             *)
(***************************************************************************)
IntervalIntersect(self, other) ==
    [start |-> Max(self.start, other.start), end |-> Min(self.end, other.end)]

IntervalIsEmptyStrict(self) == self.start > self.end

IntervalIsEmpty(self) == self.start >= self.end

(***************************************************************************)
(* bounds.rs: Bounds3 is [min |-> Vec3, max |-> Vec3]                      *)
(***************************************************************************)
NewSwapped(a, b) == [min |-> a, max |-> b]

Bounds3New(a, b) ==
    [min |-> [i \in Axes |-> Min(a[i], b[i])],
     max |-> [i \in Axes |-> Max(a[i], b[i])]]

Bounds3Point(v) == [min |-> v, max |-> v]

UnionKeepsSelfMax(self, other) ==
    [min |-> [i \in Axes |-> Min(self.min[i], other.min[i])],
     max |-> self.max]

Bounds3Union(self, other) ==
    [min |-> [i \in Axes |-> Min(self.min[i], other.min[i])],
     max |-> [i \in Axes |-> Max(self.max[i], other.max[i])]]

Diagonal(self) == VecSub(self.max, self.min)

MaximumExtentAlwaysX(self) == X

MaximumExtentTiesToX(self) ==
    LET diagonal == VecSub(self.max, self.min) IN
    IF diagonal[X] >= diagonal[Y] /\ diagonal[X] >= diagonal[Z] THEN X
    ELSE IF diagonal[Y] > diagonal[Z] THEN Y
    ELSE Z

MaximumExtent(self) ==
    LET diagonal == Diagonal(self) IN
    IF diagonal[X] > diagonal[Y] /\ diagonal[X] > diagonal[Z] THEN X
    ELSE IF diagonal[Y] > diagonal[Z] THEN Y
    ELSE Z

\* Half of a sum of two f64 values of one binade: exact when the sum is even,
\* and otherwise rounded to the nearest value, a tie going to the even one.
RoundHalfEven(s) ==
    LET q == s \div 2 IN
    IF s % 2 = 0 THEN q ELSE IF q % 2 = 0 THEN q ELSE q + 1

CentroidRoundedUp(self) == [i \in Axes |-> (self.min[i] + self.max[i] + 1) \div 2]

\* 0.5 * min + 0.5 * max
Centroid(self) == [i \in Axes |-> RoundHalfEven(self.min[i] + self.max[i])]

HitByAxisNoExit(self, r, t_interval, axis) ==
    [returned |-> FALSE, t_interval |-> t_interval]

\* One turn of the axis loop of hit_by.  returned: the loop left the function
\* with false; otherwise t_interval is the running interval after the axis.
HitByAxis(self, r, t_interval, axis) ==
    IF r.direction[axis] = 0
    THEN [returned |-> ~(r.origin[axis] >= self.min[axis] /\ r.origin[axis] <= self.max[axis]),
          t_interval |-> t_interval]
    ELSE LET t_for_axis_min == Div(self.min[axis] - r.origin[axis], r.direction[axis])
             t_for_axis_max == Div(self.max[axis] - r.origin[axis], r.direction[axis])
             t_interval_for_axis ==
                 [start |-> Min(t_for_axis_min, t_for_axis_max),
                  end   |-> Max(t_for_axis_min, t_for_axis_max)]
         IN [returned |-> FALSE,
             t_interval |-> IntervalIntersect(t_interval, t_interval_for_axis)]

\* The axis loop of hit_by from `axis` on, with the running interval.
RECURSIVE HitByFrom(_, _, _, _)
HitByFrom(self, r, t_interval, axis) ==
    IF axis > 3 THEN ~IntervalIsEmpty(t_interval)
    ELSE LET turn == HitByAxis(self, r, t_interval, axis) IN
         IF turn.returned THEN FALSE
         ELSE HitByFrom(self, r, turn.t_interval, axis + 1)

HitBy(self, r, tmin, tmax) == HitByFrom(self, r, [start |-> tmin, end |-> tmax], X)

(***************************************************************************)
(* sphere.rs: a Sphere is [center |-> Vec3, radius |-> f64].  A Hit is     *)
(* [t, point, normal, face]; the model keeps the normal multiplied by the  *)
(* (positive) radius, which leaves its direction and every sign unchanged. *)
(***************************************************************************)
SphereBounds(self) ==
    LET corner == <<self.radius, self.radius, self.radius>> IN
    Bounds3New(VecSub(self.center, corner), VecAdd(self.center, corner))

SphereHitLargerFirst(self, r, tmin, tmax) ==
    LET a == NormSquared(r.direction)
        half_b == Dot(r.direction, VecSub(r.origin, self.center))
        c == NormSquared(VecSub(r.origin, self.center)) - self.radius * self.radius
        discriminant == half_b * half_b - a * c
    IN  IF discriminant < 0 THEN None
        ELSE LET t1 == Div(-half_b + Sqrt(discriminant), a)
                 t2 == Div(-half_b - Sqrt(discriminant), a)
                 first_out == t1 < tmin \/ tmax < t1
                 t == IF first_out THEN t2 ELSE t1
             IN  IF first_out /\ (t2 < tmin \/ tmax < t2) THEN None
                 ELSE LET point == RayAt(r, t)
                          outward_normal == VecSub(point, self.center)
                          front == Dot(r.direction, outward_normal) < 0
                      IN Some([t |-> t,
                               point |-> point,
                               normal |-> IF front THEN outward_normal
                                          ELSE VecNeg(outward_normal),
                               face |-> IF front THEN "Front" ELSE "Back",
                               material |-> self.material])

SphereHitNeverFlips(self, r, tmin, tmax) ==
    LET a == NormSquared(r.direction)
        half_b == Dot(r.direction, VecSub(r.origin, self.center))
        c == NormSquared(VecSub(r.origin, self.center)) - self.radius * self.radius
        discriminant == half_b * half_b - a * c
    IN  IF discriminant < 0 THEN None
        ELSE LET t1 == Div(-half_b - Sqrt(discriminant), a)
                 t2 == Div(-half_b + Sqrt(discriminant), a)
                 first_out == t1 < tmin \/ tmax < t1
                 t == IF first_out THEN t2 ELSE t1
             IN  IF first_out /\ (t2 < tmin \/ tmax < t2) THEN None
                 ELSE LET point == RayAt(r, t)
                          outward_normal == VecSub(point, self.center)
                          front == Dot(r.direction, outward_normal) < 0
                      IN Some([t |-> t,
                               point |-> point,
                               normal |-> outward_normal,
                               face |-> IF front THEN "Front" ELSE "Back",
                               material |-> self.material])

\* The hit holds the normal scaled by the radius (the code divides by it).
SphereHit(self, r, tmin, tmax) ==
    LET a == NormSquared(r.direction)
        half_b == Dot(r.direction, VecSub(r.origin, self.center))
        c == NormSquared(VecSub(r.origin, self.center)) - self.radius * self.radius
        discriminant == half_b * half_b - a * c
    IN  IF discriminant < 0 THEN None
        ELSE LET t1 == Div(-half_b - Sqrt(discriminant), a)
                 t2 == Div(-half_b + Sqrt(discriminant), a)
                 first_out == t1 < tmin \/ tmax < t1
                 t == IF first_out THEN t2 ELSE t1
             IN  IF first_out /\ (t2 < tmin \/ tmax < t2) THEN None
                 ELSE LET point == RayAt(r, t)
                          outward_normal == VecSub(point, self.center)
                          front == Dot(r.direction, outward_normal) < 0
                      IN Some([t |-> t,
                               point |-> point,
                               normal |-> IF front THEN outward_normal
                                          ELSE VecNeg(outward_normal),
                               face |-> IF front THEN "Front" ELSE "Back",
                               material |-> self.material])

\* The debug assertions on the texture coordinate of a hit.  theta is
\* acos(-normal.y), which is PI when normal.y is 1, and `theta < PI` fails.
\* phi is atan2(-normal.z, normal.x) + PI, which is 2 PI when -normal.z is
\* +0.0 and normal.x is negative or -0.0, and `phi < 2 PI` fails; a zero of
\* the outward normal is +0.0 (point.z - center.z of equal values), so the
\* returned normal has z = -0.0 and x <= -0.0 exactly when it was negated
\* (face Back) from an outward normal with z = 0 and x >= 0.
TextureCoordAsserts(self, hit) ==
    /\ hit.normal[Y] # self.radius
    /\ ~(hit.face = "Back" /\ hit.normal[Z] = 0 /\ hit.normal[X] <= 0)

\* The roots of the quadratic are exact in the model's integers.
ExactHit(self, r) ==
    LET a == NormSquared(r.direction)
        half_b == Dot(r.direction, VecSub(r.origin, self.center))
        c == NormSquared(VecSub(r.origin, self.center)) - self.radius * self.radius
        discriminant == half_b * half_b - a * c
    IN  discriminant < 0
        \/ (/\ IsSquare(discriminant)
            /\ (-half_b - Sqrt(discriminant)) % a = 0
            /\ (-half_b + Sqrt(discriminant)) % a = 0)

(***************************************************************************)
(* color.rs and material.rs.  A colour component is held in twentieths,    *)
(* so that the background gradient of an axis-parallel ray is exact.  The  *)
(* materials modelled are Lambertian with a constant texture, Metal and    *)
(* Light; the albedos used have components 0.0 or 1.0.                     *)
(***************************************************************************)
Black == <<0, 0, 0>>
White == <<20, 20, 20>>
Blue == <<10, 14, 20>>
ColorAdd(a, b) == [i \in Axes |-> a[i] + b[i]]
ColorScale(k, a) == [i \in Axes |-> k * a[i]]
\* Color * Color, componentwise: 20 is 1.0
ColorMul(a, b) == [i \in Axes |-> Div(a[i] * b[i], 20)]

Lambertian(albedo) == [kind |-> "Lambertian", albedo |-> albedo]
Metal(albedo, fuzziness) == [kind |-> "Metal", albedo |-> albedo, fuzziness |-> fuzziness]
Light(brightness, color) == [kind |-> "Light", brightness |-> brightness, color |-> color]

NearZero(v) == \A i \in Axes : v[i] = 0
Reflect(v, normal) == VecSub(v, VecScale(2 * Dot(v, normal), normal))

\* The code's hit.normal has length 1: the model's, divided by its length.
HitNormal(hit) ==
    LET norm == Sqrt(NormSquared(hit.normal)) IN [i \in Axes |-> Div(hit.normal[i], norm)]

\* The values drawn for random_in_unit_sphere(rng).unit().
RandomUnits ==
    { <<1, 0, 0>>, <<-1, 0, 0>>, <<0, 1, 0>>, <<0, -1, 0>>, <<0, 0, 1>>, <<0, 0, -1>> }

Emit(material) ==
    IF material.kind = "Light" THEN ColorScale(material.brightness, material.color)
    ELSE Black

\* scatter: rnd is the vector the material draws from rng
Scatter(material, rnd, r, hit) ==
    IF material.kind = "Lambertian"
    THEN LET sum == VecAdd(HitNormal(hit), rnd)
             direction == IF NearZero(sum) THEN HitNormal(hit) ELSE sum
         IN  Some([attenuation |-> material.albedo,
                   outgoing |-> [origin |-> hit.point, direction |-> direction]])
    ELSE IF material.kind = "Metal"
    THEN LET direction == VecAdd(Reflect(r.direction, HitNormal(hit)),
                                 VecScale(material.fuzziness, rnd))
         IN  IF Dot(direction, HitNormal(hit)) > 0
             THEN Some([attenuation |-> material.albedo,
                        outgoing |-> [origin |-> hit.point, direction |-> direction]])
             ELSE None
    ELSE None

(***************************************************************************)
(* hit.rs: impl HasHit for &[T] (the linear scan)                          *)
(***************************************************************************)
ScanItemKeepsBound(object, r, tmin, closest, result) ==
    LET h == SphereHit(object, r, tmin, closest) IN
    [closest_so_far |-> closest, result |-> IF IsSome(h) THEN h ELSE result]

\* One turn of the loop: the object is tested in [t_min, closest_so_far].
ScanItem(object, r, tmin, closest, result) ==
    LET h == SphereHit(object, r, tmin, closest) IN
    IF IsSome(h)
    THEN [closest_so_far |-> Unwrap(h).t, result |-> h]
    ELSE [closest_so_far |-> closest, result |-> result]

RECURSIVE ScanFrom(_, _, _, _, _, _)
ScanFrom(items, r, tmin, closest, result, i) ==
    IF i > Len(items) THEN result
    ELSE LET turn == ScanItem(items[i], r, tmin, closest, result) IN
         ScanFrom(items, r, tmin, turn.closest_so_far, turn.result, i + 1)

ItemsHit(items, r, tmin, tmax) == ScanFrom(items, r, tmin, tmax, None, 1)

(***************************************************************************)
(* bvh.rs.  A node is [kind |-> "Leaf", bounds, items],                    *)
(* [kind |-> "Branch", bounds, left, right], and construction that dies on *)
(* an assertion is [kind |-> "Panic", line]; Bvh::Empty is                 *)
(* [kind |-> "Empty"].                                                     *)
(***************************************************************************)
ItemsWithInfo(items) ==
    [ix \in 1..Len(items) |->
        LET bounds == SphereBounds(items[ix]) IN
        [bounds |-> bounds, centroid |-> Centroid(bounds), item |-> ix]]

RECURSIVE FoldUnion(_, _, _)
FoldUnion(acc, boxes, i) ==
    IF i > Len(boxes) THEN acc
    ELSE FoldUnion(Bounds3Union(acc, boxes[i]), boxes, i + 1)

Panic(line) == [kind |-> "Panic", line |-> line]

BranchKeepsLeftBounds(left, right) ==
    [kind |-> "Branch", bounds |-> left.bounds, left |-> left, right |-> right]

BvhNodeBranch(left, right) ==
    [kind |-> "Branch",
     bounds |-> Bounds3Union(left.bounds, right.bounds),
     left |-> left,
     right |-> right]

LeafKeepsFirstItem(bounds, items, items_with_info) ==
    [kind |-> "Leaf",
     bounds |-> bounds,
     items |-> <<items[items_with_info[1].item]>>]

BvhNodeLeaf(bounds, items, items_with_info) ==
    [kind |-> "Leaf",
     bounds |-> bounds,
     items |-> [k \in 1..Len(items_with_info) |-> items[items_with_info[k].item]]]

RECURSIVE Build(_, _)
Build(items, items_with_info) ==
    IF items = <<>> THEN Panic(42)
    ELSE IF items_with_info = <<>> THEN Panic(50)
    ELSE
    LET bounds == FoldUnion(items_with_info[1].bounds,
                            [k \in 1..Len(items_with_info) |-> items_with_info[k].bounds], 2)
    IN
    IF Len(items_with_info) = 1 THEN BvhNodeLeaf(bounds, items, items_with_info)
    ELSE
    LET centroid_bounds ==
            FoldUnion(Bounds3Point(items_with_info[1].centroid),
                      [k \in 1..Len(items_with_info) |->
                          Bounds3Point(items_with_info[k].centroid)], 2)
        partition_axis == MaximumExtent(centroid_bounds)
    IN
    IF centroid_bounds.min[partition_axis] = centroid_bounds.max[partition_axis]
    THEN BvhNodeLeaf(bounds, items, items_with_info)
    ELSE
    LET midpoint == Centroid(centroid_bounds)
        GoesLeft(item_with_info) ==
            item_with_info.centroid[partition_axis] < midpoint[partition_axis]
        GoesRight(item_with_info) == ~GoesLeft(item_with_info)
        items_with_info_left == SelectSeq(items_with_info, GoesLeft)
        items_with_info_right == SelectSeq(items_with_info, GoesRight)
    IN
    IF ~(Len(items_with_info_left) < Len(items)) THEN Panic(100)
    ELSE LET left == Build(items, items_with_info_left) IN
         IF left.kind = "Panic" THEN left
         ELSE LET right == Build(items, items_with_info_right) IN
              IF right.kind = "Panic" THEN right
              ELSE BvhNodeBranch(left, right)

BvhFrom(items) ==
    IF items = <<>> THEN [kind |-> "Empty"]
    ELSE Build(items, ItemsWithInfo(items))

OrKeepsSecond(first, second) == second

\* Option::or
OptionOr(first, second) == IF IsSome(first) THEN first ELSE second

RECURSIVE NodeHit(_, _, _, _)

\* The Branch arm below the box test: `first` is traversed in the whole
\* window, `second` in the window narrowed to the hit of `first`.
BranchHit(first, second, r, tmin, tmax) ==
    LET first_hit == NodeHit(first, r, tmin, tmax) IN
    IF IsSome(first_hit)
    THEN OptionOr(NodeHit(second, r, tmin, Unwrap(first_hit).t), first_hit)
    ELSE NodeHit(second, r, tmin, tmax)

NodeHit(self, r, tmin, tmax) ==
    IF self.kind = "Branch"
    THEN IF HitBy(self.bounds, r, tmin, tmax)
         THEN BranchHit(self.left, self.right, r, tmin, tmax)
         ELSE None
    ELSE IF HitBy(self.bounds, r, tmin, tmax)
         THEN ItemsHit(self.items, r, tmin, tmax)
         ELSE None

BvhHit(self, r, tmin, tmax) ==
    IF self.kind = "Empty" THEN None ELSE NodeHit(self, r, tmin, tmax)

(***************************************************************************)
(* The parts of the state a specification does not use stay at these       *)
(* values.                                                                 *)
(***************************************************************************)
Unbuilt == [kind |-> "Unbuilt"]

RenderIdle ==
    /\ num_threads = 0 /\ image_width = 0 /\ image_height = 0 /\ rays_per_pixel = 0
    /\ world = Unbuilt /\ x_total = 0 /\ y_total = 0
    /\ main_pc = "idle" /\ next_y = 0 /\ inputs = <<>> /\ inputs_open = FALSE
    /\ outputs = <<>> /\ worker_pc = <<>> /\ worker_y = <<>> /\ rng_pos = <<>>
    /\ data = <<>> /\ rows_remaining = 0 /\ image = <<>> /\ written = FALSE

CameraIdle ==
    /\ cam_up = VecOrigin /\ cam_look_from = VecOrigin /\ cam_look_at = VecOrigin
    /\ cam_result = "idle"

BoundsIdle ==
    /\ corner_a = VecOrigin /\ corner_b = VecOrigin
    /\ box_self = Bounds3Point(VecOrigin) /\ box_other = Bounds3Point(VecOrigin)
    /\ box_union = Bounds3Point(VecOrigin) /\ box_extent = 0 /\ box_op = "idle"

SlabIdle ==
    /\ slab_box = Bounds3Point(VecOrigin) /\ slab_interval = [start |-> 0, end |-> 0]
    /\ slab_axis = 0 /\ slab_result = None

ScanIdle == scan_i = 0 /\ closest_so_far = 0

SphereIdle == sphere_pc = "idle" /\ sphere_result = None

ColorIdle ==
    /\ rc_pc = "idle" /\ rc_max_depth = 0 /\ rc_depth = 0 /\ rc_ray = None
    /\ rc_hit = None /\ rc_stack = <<>> /\ rc_queries = 0 /\ rc_value = <<0, 0, 0>>

TraceIdle == SphereIdle /\ ColorIdle

BvhIdle ==
    /\ scene = <<>> /\ bvh = Unbuilt /\ ray = None
    /\ t_min = 0 /\ t_max = 0 /\ bvh_result = None /\ scan_result = None
    /\ SlabIdle /\ ScanIdle

(***************************************************************************)
(* SpecBvh: a scene is built into a Bvh and rays are cast at it, through   *)
(* the tree (Bvh::hit) and through the plain list (the linear scan).       *)
(***************************************************************************)
SphereWith(c, r, m) == [center |-> c, radius |-> r, material |-> m]
Sphere(c, r) == SphereWith(c, r, Lambertian(White))

\* The primitives scenes are drawn from: spheres spread along each axis, and
\* two concentric ones (identical centroids).
Primitives ==
    { Sphere(<<0, 0, 0>>, 2), Sphere(<<0, 0, 0>>, 4), Sphere(<<4, 0, 0>>, 2),
      Sphere(<<8, 0, 0>>, 2), Sphere(<<0, 4, 0>>, 2), Sphere(<<0, 0, 4>>, 2) }

Scenes == UNION { [1..n -> Primitives] : n \in 0..MaxItems }

RayOrigins == { <<x, y, 0>> : x \in {-4, 0, 3}, y \in {0, 2} } \cup { <<0, 0, -4>> }

RayDirections ==
    { <<1, 0, 0>>, <<-1, 0, 0>>, <<0, 1, 0>>, <<0, -1, 0>>, <<0, 0, 1>>,
      <<1, 1, 0>>, <<1, 0, 1>> }

Rays == { [origin |-> o, direction |-> d] : o \in RayOrigins, d \in RayDirections }

TMins == {0, 2}
TMaxs == {2, 6, Infinity}

InitBvh ==
    /\ TraceIdle
    /\ debug_build = FALSE
    /\ RenderIdle /\ CameraIdle /\ BoundsIdle
    /\ scene \in Scenes
    /\ bvh = Unbuilt /\ ray = None /\ t_min = 0 /\ t_max = 0
    /\ bvh_result = None /\ scan_result = None
    /\ SlabIdle /\ ScanIdle

\* let world = Bvh::from(items)
BvhBuild ==
    /\ bvh = Unbuilt
    /\ bvh' = BvhFrom(scene)
    /\ UNCHANGED <<scene, ray, t_min, t_max, bvh_result, scan_result, slabVars, scanVars>>
    /\ UNCHANGED <<debug_build, traceVars, renderVars, cameraVars, boundsVars>>

\* world.hit(ray, t_min, t_max) and items.hit(ray, t_min, t_max)
CastRay(r, tmin, tmax) ==
    /\ bvh.kind \in {"Empty", "Leaf", "Branch"}
    /\ ray = None
    /\ \A k \in 1..Len(scene) : ExactHit(scene[k], r)
    /\ ray' = Some(r) /\ t_min' = tmin /\ t_max' = tmax
    /\ bvh_result' = BvhHit(bvh, r, tmin, tmax)
    /\ scan_result' = ItemsHit(scene, r, tmin, tmax)
    /\ UNCHANGED <<scene, bvh, slabVars, scanVars>>
    /\ UNCHANGED <<debug_build, traceVars, renderVars, cameraVars, boundsVars>>

NextBvh ==
    \/ BvhBuild
    \/ \E r \in Rays, tmin \in TMins, tmax \in TMaxs : CastRay(r, tmin, tmax)

SpecBvh == InitBvh /\ [][NextBvh]_vars

\* The parametric distance of an Option<Hit>, None when there is no hit.
HitT(o) == IF IsSome(o) THEN Some(Unwrap(o).t) ELSE None

(***************************************************************************)
(* C1.  For every collection of primitives, every ray and every window     *)
(* [t_min, t_max], Bvh::from(items).hit and the linear scan items.hit      *)
(* agree: both return no hit, or both return a hit with the same t.        *)
(***************************************************************************)
C1_BvhAgreesWithScan ==
    IsSome(ray) => HitT(bvh_result) = HitT(scan_result)

(***************************************************************************)
(* SpecBuild: Bvh::from alone, on scenes that also hold spheres whose      *)
(* centroids are consecutive values (2 and 3 on the x axis).               *)
(***************************************************************************)
BuildPrimitives ==
    Primitives \cup { Sphere(<<2, 0, 0>>, 2), Sphere(<<3, 0, 0>>, 2) }

BuildScenes == UNION { [1..n -> BuildPrimitives] : n \in 0..MaxItems }

InitBuild ==
    /\ TraceIdle
    /\ debug_build = FALSE
    /\ RenderIdle /\ CameraIdle /\ BoundsIdle
    /\ scene \in BuildScenes
    /\ bvh = Unbuilt /\ ray = None /\ t_min = 0 /\ t_max = 0
    /\ bvh_result = None /\ scan_result = None
    /\ SlabIdle /\ ScanIdle

SpecBuild == InitBuild /\ [][BvhBuild]_vars

\* The tree was built: construction returned a node.
Built == bvh.kind \in {"Leaf", "Branch"}

\* The nodes of a tree, and the primitives of a subtree.
RECURSIVE TreeNodes(_)
TreeNodes(node) ==
    IF node.kind = "Branch"
    THEN {node} \cup TreeNodes(node.left) \cup TreeNodes(node.right)
    ELSE {node}

RECURSIVE TreeItems(_)
TreeItems(node) ==
    IF node.kind = "Branch"
    THEN TreeItems(node.left) \o TreeItems(node.right)
    ELSE node.items

Branches == { n \in TreeNodes(bvh) : n.kind = "Branch" }
Leaves == { n \in TreeNodes(bvh) : n.kind = "Leaf" }

CentroidOf(item) == Centroid(SphereBounds(item))

CentroidsDiffer(items) ==
    \E i, j \in 1..Len(items) : CentroidOf(items[i]) # CentroidOf(items[j])

\* Each side of the split below a branch holds a primitive, and the left
\* side holds fewer than the subset that was split.
NonTrivialSplit(n) ==
    /\ Len(TreeItems(n.left)) >= 1 /\ Len(TreeItems(n.right)) >= 1
    /\ Len(TreeItems(n.left)) < Len(TreeItems(n))

\* The midpoint split of the whole collection puts every item on one side.
TopSplitTrivial(items) ==
    /\ Len(items) >= 2
    /\ LET lo(a) == CHOOSE c \in { CentroidOf(items[k])[a] : k \in 1..Len(items) } :
                        \A k \in 1..Len(items) : c <= CentroidOf(items[k])[a]
           hi(a) == CHOOSE c \in { CentroidOf(items[k])[a] : k \in 1..Len(items) } :
                        \A k \in 1..Len(items) : c >= CentroidOf(items[k])[a]
           axis == CHOOSE a \in Axes : \A b \in Axes : hi(a) - lo(a) >= hi(b) - lo(b)
           mid == RoundHalfEven(lo(axis) + hi(axis))
       IN  /\ lo(axis) < hi(axis)
           /\ \A b \in Axes : b # axis => hi(b) - lo(b) < hi(axis) - lo(axis)
           /\ \/ \A k \in 1..Len(items) : CentroidOf(items[k])[axis] < mid
              \/ \A k \in 1..Len(items) : CentroidOf(items[k])[axis] >= mid

C12_BuildSplitsNonEmpty ==
    (bvh # Unbuilt /\ scene # <<>>) =>
        /\ Built
        /\ \A n \in Branches : NonTrivialSplit(n)

(***************************************************************************)
(* C13.  In every built tree a Leaf holds more than one primitive only if  *)
(* the centroids of all its primitives are the same point, and a subset    *)
(* whose centroids differ on any axis is a Branch.                         *)
(***************************************************************************)
C13_LeafCentroidsCoincide ==
    Built =>
        /\ \A n \in Leaves : Len(n.items) > 1 => ~CentroidsDiffer(n.items)
        /\ \A n \in TreeNodes(bvh) : CentroidsDiffer(TreeItems(n)) => n.kind = "Branch"
        /\ \A n \in Leaves : Len(n.items) >= 1

\* A tree with a two-primitive leaf under a branch whose centroids differ on
\* the y or the z axis only.
C13_Witness ==
    /\ Built /\ bvh.kind = "Branch"
    /\ \E n \in Leaves : Len(n.items) = 2
    /\ \A k \in 1..Len(scene) : CentroidOf(scene[k])[X] = 0

(***************************************************************************)
(* C14.  In every built tree the box of each node is the union of the      *)
(* boxes of the primitives of its subtree: on every axis its min is the    *)
(* least min and its max the greatest max among them.  The box of a Branch *)
(* is the union of its children's boxes and contains each of them.         *)
(***************************************************************************)
BoxInside(inner, outer) ==
    \A i \in Axes : outer.min[i] <= inner.min[i] /\ inner.max[i] <= outer.max[i]

BoundsOfSubtree(n) ==
    LET items == TreeItems(n) IN
    \A i \in Axes :
        /\ \A k \in 1..Len(items) :
              /\ n.bounds.min[i] <= SphereBounds(items[k]).min[i]
              /\ n.bounds.max[i] >= SphereBounds(items[k]).max[i]
        /\ \E k \in 1..Len(items) : n.bounds.min[i] = SphereBounds(items[k]).min[i]
        /\ \E k \in 1..Len(items) : n.bounds.max[i] = SphereBounds(items[k]).max[i]

C14_NodeBoundsAreSubtreeUnion ==
    Built =>
        /\ \A n \in TreeNodes(bvh) : BoundsOfSubtree(n)
        /\ \A n \in Branches :
              /\ n.bounds = Bounds3Union(n.left.bounds, n.right.bounds)
              /\ BoxInside(n.left.bounds, n.bounds)
              /\ BoxInside(n.right.bounds, n.bounds)

\* A branch below the root, and a root box larger than both children's.
C14_Witness ==
    /\ Built /\ bvh.kind = "Branch"
    /\ bvh.left.kind = "Branch" \/ bvh.right.kind = "Branch"
    /\ bvh.bounds # bvh.left.bounds /\ bvh.bounds # bvh.right.bounds

\* How often a primitive occurs in a sequence, and the primitives of one.
Occurrences(v, seq) == Cardinality({ k \in 1..Len(seq) : seq[k] = v })
Members(seq) == { seq[k] : k \in 1..Len(seq) }

(***************************************************************************)
(* C24.  Bvh::from loses and duplicates nothing: in the tree built from a  *)
(* non-empty collection every input primitive occurs in the leaves as      *)
(* often as in the input, it lies in exactly one Leaf, no Leaf is empty,   *)
(* and the left and right parts of every split are disjoint and together   *)
(* are the subset that was split.                                          *)
(***************************************************************************)
C24_NothingLostOrDuplicated ==
    Built =>
        /\ scene # <<>>
        /\ Len(TreeItems(bvh)) = Len(scene)
        /\ \A v \in Members(scene) \cup Members(TreeItems(bvh)) :
              Occurrences(v, TreeItems(bvh)) = Occurrences(v, scene)
        /\ \A n \in Leaves : n.items # <<>>
        /\ \A v \in Members(scene) :
              Cardinality({ n \in Leaves : v \in Members(n.items) }) = 1
        /\ \A n \in Branches :
              /\ Members(TreeItems(n.left)) \cap Members(TreeItems(n.right)) = {}
              /\ Len(TreeItems(n.left)) + Len(TreeItems(n.right)) = Len(TreeItems(n))

\* A tree of at least three primitives with a split and with a leaf that
\* holds several primitives (their centroids coincide).
C24_Witness ==
    /\ Built /\ Len(scene) >= 3 /\ bvh.kind = "Branch"
    /\ \E n \in Leaves : Len(n.items) >= 2

NotLater(result, alone) ==
    IsSome(alone) => (IsSome(result) /\ Unwrap(result).t <= Unwrap(alone).t)

C19_ChildOrderIrrelevant ==
    (IsSome(ray) /\ Built) =>
        \A n \in Branches :
            LET r == Unwrap(ray)
                left_first == BranchHit(n.left, n.right, r, t_min, t_max)
                right_first == BranchHit(n.right, n.left, r, t_min, t_max)
            IN  /\ HitT(left_first) = HitT(right_first)
                /\ NotLater(left_first, NodeHit(n.left, r, t_min, t_max))
                /\ NotLater(left_first, NodeHit(n.right, r, t_min, t_max))

\* The ray hits both children of the root, the right one nearer.
C19_Witness ==
    /\ IsSome(ray) /\ bvh.kind = "Branch"
    /\ LET left_alone == NodeHit(bvh.left, Unwrap(ray), t_min, t_max)
           right_alone == NodeHit(bvh.right, Unwrap(ray), t_min, t_max)
       IN  /\ IsSome(left_alone) /\ IsSome(right_alone)
           /\ Unwrap(right_alone).t < Unwrap(left_alone).t
           /\ HitT(bvh_result) = HitT(right_alone)

(***************************************************************************)
(* main.rs: the row dispatcher.                                            *)
(*                                                                         *)
(* usize arithmetic: a subtraction below zero panics when overflow checks  *)
(* are compiled in (debug_build) and wraps otherwise.  The model wraps at  *)
(* UsizeModulus.                                                           *)
(***************************************************************************)
UsizeModulus == 2 ^ 16

UsizeSubOverflows(a, b) == a < b
UsizeSub(a, b) == IF a >= b THEN a - b ELSE a - b + UsizeModulus

\* rand: the values a worker's generator yields are drawn from 0..RandRange-1;
\* worker w's stream is fixed: its i-th value is Stream(w, i).
RandRange == 3
Stream(w, i) == (w + i) % RandRange

\* camera.rs get_ray, for the sample whose image-plane coordinates have the
\* numerators un and vn: the model's camera looks along +z from z = -4 at the
\* plane of the samples.
GetRay(un, vn) == [origin |-> <<un, vn, -4>>, direction |-> <<0, 0, 1>>]

\* ray_color for depth > 0: the colour is kept as what decides it, the sample
\* and the hit's distance when the ray hits (None: the background gradient).
RayColor(w, un, vn) ==
    [u |-> un, v |-> vn, hit |-> HitT(BvhHit(w, GetRay(un, vn), 0, Infinity))]

\* get_pixel_color: rays_per_pixel samples, each drawing two values from the
\* worker's generator, whose position is pos when the pixel starts.
GetPixelColor(w, pos, x, y) ==
    [k \in 1..rays_per_pixel |->
        RayColor(world,
                 x * RandRange + Stream(w, pos + 2 * (k - 1)),
                 y * RandRange + Stream(w, pos + 2 * (k - 1) + 1))]

DrawsPerPixel == 2 * rays_per_pixel

\* (0..image_width).map(|x| get_pixel_color(..)).collect()
ComputeRow(w, pos, y) ==
    [x1 \in 1..image_width |-> GetPixelColor(w, pos + DrawsPerPixel * (x1 - 1), x1 - 1, y)]

\* data.sort_by(|a, b| b.0.cmp(&a.0)): stable, descending on the row index
RECURSIVE InsertDesc(_, _)
InsertDesc(sorted, e) ==
    IF sorted = <<>> THEN <<e>>
    ELSE IF Head(sorted)[1] >= e[1] THEN <<Head(sorted)>> \o InsertDesc(Tail(sorted), e)
    ELSE <<e>> \o sorted

RECURSIVE SortedPrefix(_, _)
SortedPrefix(seq, n) ==
    IF n = 0 THEN <<>> ELSE InsertDesc(SortedPrefix(seq, n - 1), seq[n])

SortUnsorted(seq) == seq

SortByRowDesc(seq) == SortedPrefix(seq, Len(seq))

\* data.into_iter().flat_map(|x| x.1.into_iter()).collect()
RECURSIVE FlatMapRows(_)
FlatMapRows(seq) ==
    IF seq = <<>> THEN <<>> ELSE Head(seq)[2] \o FlatMapRows(Tail(seq))

Workers == 1..num_threads

\* The scenes the dispatcher renders: no primitive, or one sphere.
RenderScenes == { <<>>, <<Sphere(<<0, 0, 0>>, 2)>> }

InitRender ==
    /\ TraceIdle
    /\ debug_build \in BOOLEAN
    /\ CameraIdle /\ BoundsIdle
    /\ scene \in RenderScenes
    /\ bvh = Unbuilt /\ ray = None /\ t_min = 0 /\ t_max = 0
    /\ bvh_result = None /\ scan_result = None
    /\ SlabIdle /\ ScanIdle
    /\ num_threads \in 0..MaxThreads
    /\ image_width \in 0..MaxWidth
    /\ image_height \in 0..MaxHeight
    /\ rays_per_pixel \in 1..MaxRays
    /\ world = Unbuilt /\ x_total = 0 /\ y_total = 0
    /\ main_pc = "setup" /\ next_y = 0
    /\ inputs = <<>> /\ inputs_open = TRUE /\ outputs = <<>>
    /\ worker_pc = [w \in Workers |-> "unspawned"]
    /\ worker_y = [w \in Workers |-> 0]
    /\ rng_pos = [w \in Workers |-> 0]
    /\ data = <<>> /\ rows_remaining = 0 /\ image = <<>> /\ written = FALSE

\* main.rs 251-282: the camera, the world, x_total and y_total
MainSetup ==
    /\ main_pc = "setup"
    /\ IF debug_build /\ (UsizeSubOverflows(image_width, 1) \/ UsizeSubOverflows(image_height, 1))
       THEN /\ main_pc' = "panicked"
            /\ UNCHANGED <<world, x_total, y_total>>
       ELSE /\ world' = BvhFrom(scene)
            /\ x_total' = UsizeSub(image_width, 1)
            /\ y_total' = UsizeSub(image_height, 1)
            /\ main_pc' = IF num_threads = 0 THEN "seed" ELSE "spawn"
    /\ UNCHANGED <<num_threads, image_width, image_height, rays_per_pixel, next_y, inputs,
                   inputs_open, outputs, worker_pc, worker_y, rng_pos, data,
                   rows_remaining, image, written>>
    /\ UNCHANGED <<debug_build, traceVars, cameraVars, boundsVars, bvhVars>>

\* main.rs 292-321: one turn of `for _ in 0..num_threads`, thread::spawn
MainSpawn(w) ==
    /\ main_pc = "spawn"
    /\ worker_pc[w] = "unspawned"
    /\ \A v \in Workers : v < w => worker_pc[v] # "unspawned"
    /\ worker_pc' = [worker_pc EXCEPT ![w] = "recv"]
    /\ main_pc' = IF w = num_threads THEN "seed" ELSE "spawn"
    /\ UNCHANGED <<num_threads, image_width, image_height, rays_per_pixel, world, x_total,
                   y_total, next_y, inputs, inputs_open, outputs, worker_y, rng_pos, data,
                   rows_remaining, image, written>>
    /\ UNCHANGED <<debug_build, traceVars, cameraVars, boundsVars, bvhVars>>

\* main.rs 323-325: one turn of `for y in 0..image_height`, inputs_sender.send(y)
MainSeed ==
    /\ main_pc = "seed"
    /\ next_y < image_height
    /\ inputs' = Append(inputs, next_y)
    /\ next_y' = next_y + 1
    /\ UNCHANGED <<num_threads, image_width, image_height, rays_per_pixel, world, x_total,
                   y_total, main_pc, inputs_open, outputs, worker_pc, worker_y, rng_pos,
                   data, rows_remaining, image, written>>
    /\ UNCHANGED <<debug_build, traceVars, cameraVars, boundsVars, bvhVars>>

MainEndBlockKeepsSender ==
    /\ main_pc = "seed"
    /\ next_y = image_height
    /\ inputs_open' = TRUE
    /\ rows_remaining' = image_height
    /\ main_pc' = "drain"
    /\ UNCHANGED <<num_threads, image_width, image_height, rays_per_pixel, world, x_total,
                   y_total, next_y, inputs, outputs, worker_pc, worker_y, rng_pos, data,
                   image, written>>
    /\ UNCHANGED <<debug_build, traceVars, cameraVars, boundsVars, bvhVars>>

\* main.rs 327-330: the block ends, dropping inputs_sender, inputs_reciever and
\* outputs_sender; rows_remaining = image_height
MainEndBlock ==
    /\ main_pc = "seed"
    /\ next_y = image_height
    /\ inputs_open' = FALSE
    /\ rows_remaining' = image_height
    /\ main_pc' = "drain"
    /\ UNCHANGED <<num_threads, image_width, image_height, rays_per_pixel, world, x_total,
                   y_total, next_y, inputs, outputs, worker_pc, worker_y, rng_pos, data,
                   image, written>>
    /\ UNCHANGED <<debug_build, traceVars, cameraVars, boundsVars, bvhVars>>

OutputsConnectedNever == FALSE
OutputsConnectedAlways == TRUE

\* The senders of the results queue still alive while main drains: the clones
\* the running workers hold.
OutputsConnected == \E w \in Workers : worker_pc[w] \in {"recv", "compute"}

\* main.rs 333-338: outputs_reciever.recv() yields a row
MainRecv ==
    /\ main_pc = "drain"
    /\ outputs # <<>>
    /\ outputs' = Tail(outputs)
    /\ data' = Append(data, Head(outputs))
    /\ IF debug_build /\ UsizeSubOverflows(rows_remaining, 1)
       THEN main_pc' = "panicked" /\ UNCHANGED rows_remaining
       ELSE main_pc' = main_pc /\ rows_remaining' = UsizeSub(rows_remaining, 1)
    /\ UNCHANGED <<num_threads, image_width, image_height, rays_per_pixel, world, x_total,
                   y_total, next_y, inputs, inputs_open, worker_pc, worker_y, rng_pos,
                   image, written>>
    /\ UNCHANGED <<debug_build, traceVars, cameraVars, boundsVars, bvhVars>>

AssertDropped(remaining) == TRUE

\* assert!(rows_remaining == 0)
AssertRowsRemaining(remaining) == remaining = 0

\* main.rs 333, 339-341: recv() fails (the queue is empty and every sender is
\* gone), the loop ends, the assertion, the sort and the concatenation
MainAssemble ==
    /\ main_pc = "drain"
    /\ outputs = <<>>
    /\ ~OutputsConnected
    /\ IF AssertRowsRemaining(rows_remaining)
       THEN /\ image' = FlatMapRows(SortByRowDesc(data))
            /\ main_pc' = "write"
       ELSE /\ main_pc' = "panicked"
            /\ UNCHANGED image
    /\ UNCHANGED <<num_threads, image_width, image_height, rays_per_pixel, world, x_total,
                   y_total, next_y, inputs, inputs_open, outputs, worker_pc, worker_y,
                   rng_pos, data, rows_remaining, written>>
    /\ UNCHANGED <<debug_build, traceVars, cameraVars, boundsVars, bvhVars>>

\* main.rs 348-355: image.render(&mut io::stdout())
MainWrite ==
    /\ main_pc = "write"
    /\ written' = TRUE
    /\ main_pc' = "done"
    /\ UNCHANGED <<num_threads, image_width, image_height, rays_per_pixel, world, x_total,
                   y_total, next_y, inputs, inputs_open, outputs, worker_pc, worker_y,
                   rng_pos, data, rows_remaining, image>>
    /\ UNCHANGED <<debug_build, traceVars, cameraVars, boundsVars, bvhVars>>

\* main.rs 300: inputs_reciever.recv() yields a row index
WorkerRecv(w) ==
    /\ worker_pc[w] = "recv"
    /\ inputs # <<>>
    /\ inputs' = Tail(inputs)
    /\ worker_y' = [worker_y EXCEPT ![w] = Head(inputs)]
    /\ worker_pc' = [worker_pc EXCEPT ![w] = "compute"]
    /\ UNCHANGED <<num_threads, image_width, image_height, rays_per_pixel, world, x_total,
                   y_total, main_pc, next_y, inputs_open, outputs, rng_pos, data,
                   rows_remaining, image, written>>
    /\ UNCHANGED <<debug_build, traceVars, cameraVars, boundsVars, bvhVars>>

\* main.rs 300, 320: recv() fails (the queue is empty and its sender is gone),
\* the loop ends and the thread exits, dropping its outputs_sender
WorkerExit(w) ==
    /\ worker_pc[w] = "recv"
    /\ inputs = <<>>
    /\ ~inputs_open
    /\ worker_pc' = [worker_pc EXCEPT ![w] = "exited"]
    /\ UNCHANGED <<num_threads, image_width, image_height, rays_per_pixel, world, x_total,
                   y_total, main_pc, next_y, inputs, inputs_open, outputs, worker_y,
                   rng_pos, data, rows_remaining, image, written>>
    /\ UNCHANGED <<debug_build, traceVars, cameraVars, boundsVars, bvhVars>>

WorkerSendReseeds(w) ==
    /\ worker_pc[w] = "compute"
    /\ outputs' = Append(outputs, <<worker_y[w], ComputeRow(w, rng_pos[w], worker_y[w])>>)
    /\ worker_pc' = [worker_pc EXCEPT ![w] = "recv"]
    /\ UNCHANGED <<num_threads, image_width, image_height, rays_per_pixel, world, x_total,
                   y_total, main_pc, next_y, inputs, inputs_open, worker_y, rng_pos, data,
                   rows_remaining, image, written>>
    /\ UNCHANGED <<debug_build, traceVars, cameraVars, boundsVars, bvhVars>>

\* main.rs 301-318: the row is computed and sent
WorkerSend(w) ==
    /\ worker_pc[w] = "compute"
    /\ outputs' = Append(outputs, <<worker_y[w], ComputeRow(w, rng_pos[w], worker_y[w])>>)
    /\ rng_pos' = [rng_pos EXCEPT ![w] = rng_pos[w] + DrawsPerPixel * image_width]
    /\ worker_pc' = [worker_pc EXCEPT ![w] = "recv"]
    /\ UNCHANGED <<num_threads, image_width, image_height, rays_per_pixel, world, x_total,
                   y_total, main_pc, next_y, inputs, inputs_open, worker_y, data,
                   rows_remaining, image, written>>
    /\ UNCHANGED <<debug_build, traceVars, cameraVars, boundsVars, bvhVars>>

\* main.rs 301-317: the row computation panics; the thread unwinds, dropping
\* its inputs_reciever and its outputs_sender, and the row is lost
WorkerPanic(w) ==
    /\ worker_pc[w] = "compute"
    /\ worker_pc' = [worker_pc EXCEPT ![w] = "panicked"]
    /\ UNCHANGED <<num_threads, image_width, image_height, rays_per_pixel, world, x_total,
                   y_total, main_pc, next_y, inputs, inputs_open, outputs, worker_y,
                   rng_pos, data, rows_remaining, image, written>>
    /\ UNCHANGED <<debug_build, traceVars, cameraVars, boundsVars, bvhVars>>

MainStep ==
    \/ MainSetup
    \/ \E w \in Workers : MainSpawn(w)
    \/ MainSeed
    \/ MainEndBlock
    \/ MainRecv
    \/ MainAssemble
    \/ MainWrite

WorkerStep(w) ==
    \/ WorkerRecv(w)
    \/ WorkerExit(w)
    \/ WorkerSend(w)

\* The dispatcher when no row computation fails.
Next ==
    \/ MainSetup
    \/ \E w \in Workers : MainSpawn(w)
    \/ MainSeed
    \/ MainEndBlock
    \/ MainRecv
    \/ MainAssemble
    \/ MainWrite
    \/ \E w \in Workers : WorkerRecv(w)
    \/ \E w \in Workers : WorkerExit(w)
    \/ \E w \in Workers : WorkerSend(w)

Spec == InitRender /\ [][Next]_vars

\* The dispatcher when a row computation may panic.
NextPanic == Next \/ \E w \in Workers : WorkerPanic(w)

\* Threads are scheduled fairly: main and every worker keep taking steps.
Fairness ==
    /\ WF_vars(MainStep)
    /\ \A w \in 1..MaxThreads : WF_vars(w \in Workers /\ WorkerStep(w))

\* Whether the render ends depends on the threads, the rows and the channels,
\* not on what a row holds: the fair specifications draw rows of at most one
\* pixel, one ray per pixel and the empty scene.
InitFair ==
    /\ InitRender
    /\ image_width <= 1 /\ rays_per_pixel = 1 /\ scene = <<>>

SpecFair == InitFair /\ [][Next]_vars /\ Fairness

SpecPanicFair ==
    /\ InitFair /\ [][NextPanic]_vars
    /\ WF_vars(MainStep)
    /\ \A w \in 1..MaxThreads : WF_vars(w \in Workers /\ (WorkerStep(w) \/ WorkerPanic(w)))

(***************************************************************************)
(* Properties of the dispatcher.                                           *)
(***************************************************************************)
ImageAssembled == main_pc \in {"write", "done"}
DrainStopped == ~inputs_open /\ main_pc \in {"write", "done", "panicked"}
AnyWorkerPanicked == \E w \in Workers : worker_pc[w] = "panicked"
Rows == 0..(image_height - 1)

\* How often row index y occurs among the row indices (or results) of seq.
RECURSIVE CountIn(_, _)
CountIn(seq, y) ==
    IF seq = <<>> THEN 0
    ELSE (IF Head(seq) = y THEN 1 ELSE 0) + CountIn(Tail(seq), y)

RowIndices(results) == [i \in 1..Len(results) |-> results[i][1]]

\* Where row y is: waiting in the work queue, held by a worker, waiting in
\* the results queue, received.
Queued(y) == CountIn(inputs, y)
Held(y) == Cardinality({w \in Workers : worker_pc[w] = "compute" /\ worker_y[w] = y})
Sent(y) == CountIn(RowIndices(outputs), y)
Received(y) == CountIn(RowIndices(data), y)

(***************************************************************************)
(* C2.  With N >= 1 workers, whatever the interleaving, the assembled      *)
(* buffer has image_width * image_height entries and the entries at        *)
(* k * image_width .. (k + 1) * image_width - 1 are the row computed for   *)
(* row index image_height - 1 - k, whatever the order of arrival.          *)
(***************************************************************************)
C2_RowsInOrder ==
    (ImageAssembled /\ num_threads >= 1) =>
        /\ Len(image) = image_width * image_height
        /\ \A k \in 0..(image_height - 1) : \A x \in 0..(image_width - 1) :
              LET pixel == image[k * image_width + x + 1]
                  y == image_height - 1 - k
              IN  /\ \E i \in 1..Len(data) : data[i][1] = y /\ data[i][2][x + 1] = pixel
                  /\ \A s \in 1..Len(pixel) :
                        pixel[s].u \div RandRange = x /\ pixel[s].v \div RandRange = y

\* Two workers, three rows of two pixels, arrived neither in ascending nor in
\* descending order of row index, and assembled.
C2_Witness ==
    /\ main_pc = "done" /\ num_threads = 2 /\ image_height = 3 /\ image_width = 2
    /\ \E i \in 1..2 : data[i][1] < data[i + 1][1]
    /\ \E i \in 1..2 : data[i][1] > data[i + 1][1]

(***************************************************************************)
(* C3, as claimed.  When no worker fails, each row index is taken by       *)
(* exactly one worker and yields exactly one result; the drain loop never  *)
(* receives more than image_height results; it does not stop while a row   *)
(* is queued or being computed; when it stops it has received exactly      *)
(* image_height results with distinct row indices and rows_remaining = 0.  *)
(***************************************************************************)
RowsAccounted ==
    /\ \A y \in Rows :
          Queued(y) + Held(y) + Sent(y) + Received(y) = (IF y < next_y THEN 1 ELSE 0)
    /\ main_pc = "drain" => rows_remaining + Len(data) = image_height
    /\ DrainStopped =>
          /\ inputs = <<>> /\ outputs = <<>>
          /\ \A w \in Workers : worker_pc[w] # "compute"
          /\ Len(data) = image_height
          /\ \A y \in Rows : Received(y) = 1
          /\ rows_remaining = 0
          /\ main_pc # "panicked"

ReferenceImage ==
    FlatMapRows([k \in 1..image_height |->
        LET y == image_height - k IN
        <<y, ComputeRow(1, y * DrawsPerPixel * image_width, y)>>])

C4_ImageIndependentOfSchedule == main_pc = "done" => image = ReferenceImage

(***************************************************************************)
(* C4, amended.  With a fixed random stream per worker and a single        *)
(* worker, the image is the same for every scheduling.                     *)
(***************************************************************************)
C4_SingleWorkerImageIndependentOfSchedule ==
    (main_pc = "done" /\ num_threads = 1) => image = ReferenceImage

\* One worker has rendered three rows of two pixels.
C4_Witness ==
    /\ main_pc = "done" /\ num_threads = 1 /\ image_height = 3 /\ image_width = 2
    /\ Len(image) = 6

(***************************************************************************)
(* C5, as claimed.  With N >= 1 workers and image_height >= 1, under fair  *)
(* scheduling the render runs to completion: the workers exit, the         *)
(* dispatcher leaves the drain loop and assembles the image, and no state  *)
(* short of that is a deadlock.                                            *)
(***************************************************************************)
RenderCompleted ==
    /\ main_pc = "done" /\ written
    /\ \A w \in Workers : worker_pc[w] = "exited"
    /\ inputs = <<>> /\ outputs = <<>>

AllBackground(row) ==
    \A x \in 1..Len(row) : \A s \in 1..Len(row[x]) : row[x][s].hit = None

C6_DegenerateRendersCleanly ==
    /\ (image_height = 0 /\ image_width >= 1) =>
          /\ main_pc # "panicked"
          /\ ImageAssembled => image = <<>>
    /\ scene = <<>> =>
          /\ \A i \in 1..Len(outputs) : AllBackground(outputs[i][2])
          /\ \A i \in 1..Len(data) : AllBackground(data[i][2])
          /\ AllBackground(<<image>>)

(***************************************************************************)
(* C7.  When a worker panics after taking a row and before sending its     *)
(* result, the dispatcher never assembles or writes an image, and it does  *)
(* not hang: the render ends in a panic of main.                           *)
(***************************************************************************)
C7_WorkerFailureIsFatal ==
    /\ [](AnyWorkerPanicked => (~ImageAssembled /\ ~written /\ image = <<>>))
    /\ [](AnyWorkerPanicked => <>(main_pc = "panicked"))

\* One of two workers has panicked, the other has delivered a row and exited,
\* and main has panicked.
C7_Witness ==
    /\ main_pc = "panicked" /\ num_threads = 2
    /\ \E w \in Workers : worker_pc[w] = "panicked"
    /\ \E w \in Workers : worker_pc[w] = "exited" /\ rng_pos[w] > 0
    /\ Len(data) >= 1

(***************************************************************************)
(* camera.rs: Camera::new.                                                 *)
(*                                                                         *)
(* Vec3::unit divides by the norm.  The model keeps a unit vector as the   *)
(* shortest integer vector of its direction (v divided by the gcd of its   *)
(* components): two unit vectors are equal exactly when these are.  The    *)
(* unit of the zero vector trips debug_assert!(norm != 0.0) in a debug     *)
(* build and is NaN otherwise; NaN is NaNVec, equal to nothing.            *)
(***************************************************************************)
RECURSIVE Gcd(_, _)
Gcd(a, b) == IF b = 0 THEN a ELSE Gcd(b, a % b)
Gcd3(v) == Gcd(Gcd(Abs(v[1]), Abs(v[2])), Abs(v[3]))

NaNVec == <<>>
IsNaNVec(v) == v = NaNVec

\* vec3.rs 38-43, for a vector that is not NaN
Unit(v) ==
    IF v = VecOrigin THEN NaNVec ELSE [i \in Axes |-> v[i] \div Gcd3(v)]
UnitAsserts(v) == debug_build /\ v = VecOrigin

\* #[derive(PartialEq)] on Vec3: NaN equals nothing
VecEq(a, b) == ~IsNaNVec(a) /\ ~IsNaNVec(b) /\ a = b

\* up.cross(w) with NaN propagated
CrossNaN(a, b) == IF IsNaNVec(a) \/ IsNaNVec(b) THEN NaNVec ELSE Cross(a, b)
UnitNaN(v) == IF IsNaNVec(v) THEN NaNVec ELSE Unit(v)
UnitNaNAsserts(v) == ~IsNaNVec(v) /\ UnitAsserts(v)

\* camera.rs 34-45: "ok" when the constructor returns, "panic" when it dies
CameraNew(up, look_from, look_at) ==
    LET d == VecSub(look_from, look_at)
        w == Unit(d)
    IN  IF UnitAsserts(d) THEN "panic"                      \* line 34, vec3.rs 40
        ELSE IF debug_build /\ IsNaNVec(w) THEN "panic"     \* line 35
        ELSE IF UnitAsserts(up) THEN "panic"                \* line 37, vec3.rs 40
        ELSE IF VecEq(Unit(up), w) THEN "panic"             \* line 38
        ELSE LET c == CrossNaN(up, w)
                 u == UnitNaN(c)
             IN  IF UnitNaNAsserts(c) THEN "panic"          \* line 41, vec3.rs 40
                 ELSE IF debug_build /\ IsNaNVec(u) THEN "panic"   \* line 42
                 ELSE LET c2 == CrossNaN(w, u)
                          v == UnitNaN(c2)
                      IN  IF UnitNaNAsserts(c2) THEN "panic"       \* line 44
                          ELSE IF debug_build /\ IsNaNVec(v) THEN "panic"  \* line 45
                          ELSE "ok"

CamVectors ==
    { <<x, y, z>> : x \in -MaxCam..MaxCam, y \in -MaxCam..MaxCam, z \in -MaxCam..MaxCam }
CamLookAts == { VecOrigin, <<1, 0, 0>> }

InitCamera ==
    /\ TraceIdle
    /\ debug_build \in BOOLEAN
    /\ RenderIdle /\ BoundsIdle /\ BvhIdle
    /\ cam_up \in CamVectors \ {VecOrigin}
    /\ cam_look_from \in CamVectors
    /\ cam_look_at \in CamLookAts
    /\ cam_look_from # cam_look_at
    /\ cam_result = "new"

\* Camera::new(aspect_ratio, v_fov, &up, &look_from, &look_at, aperture, focal_distance)
CameraNewCall ==
    /\ cam_result = "new"
    /\ cam_result' = CameraNew(cam_up, cam_look_from, cam_look_at)
    /\ UNCHANGED <<cam_up, cam_look_from, cam_look_at>>
    /\ UNCHANGED <<debug_build, traceVars, renderVars, boundsVars, bvhVars>>

NextCamera == CameraNewCall

SpecCamera == InitCamera /\ [][NextCamera]_vars

Parallel(a, b) == Cross(a, b) = VecOrigin

(***************************************************************************)
(* C8.  Camera::new panics for every configuration in which the up vector  *)
(* is parallel to the look direction look_from - look_at, in either        *)
(* orientation, and succeeds for every configuration in which it is not.   *)
(***************************************************************************)
C8_ParallelUpIsFatal ==
    cam_result # "new" =>
        (cam_result = "panic" <=> Parallel(cam_up, VecSub(cam_look_from, cam_look_at)))

(***************************************************************************)
(* SpecBounds: boxes are made with new and point and joined with union.    *)
(***************************************************************************)
Points == { <<x, y, z>> : x \in 0..MaxCoord, y \in 0..1, z \in 0..1 }

InitBounds ==
    /\ TraceIdle
    /\ debug_build = FALSE
    /\ RenderIdle /\ CameraIdle /\ BvhIdle
    /\ corner_a \in Points /\ corner_b \in Points
    /\ box_self \in { Bounds3New(p, q) : p \in Points, q \in Points }
    /\ box_other = Bounds3Point(corner_a)
    /\ box_union = box_self
    /\ box_extent = 0
    /\ box_op = "start"

\* Bounds3::new(a, b)
BoundsNew ==
    /\ box_op = "start"
    /\ box_other' = Bounds3New(corner_a, corner_b)
    /\ box_op' = "new"
    /\ UNCHANGED <<corner_a, corner_b, box_self, box_union, box_extent>>
    /\ UNCHANGED <<debug_build, traceVars, renderVars, cameraVars, bvhVars>>

\* Bounds3::point(v)
BoundsPoint ==
    /\ box_op = "start"
    /\ box_other' = Bounds3Point(corner_b)
    /\ box_op' = "point"
    /\ UNCHANGED <<corner_a, corner_b, box_self, box_union, box_extent>>
    /\ UNCHANGED <<debug_build, traceVars, renderVars, cameraVars, bvhVars>>

\* self.union(&other)
BoundsUnion ==
    /\ box_op \in {"new", "point"}
    /\ box_union' = Bounds3Union(box_self, box_other)
    /\ box_op' = "union"
    /\ UNCHANGED <<corner_a, corner_b, box_self, box_other, box_extent>>
    /\ UNCHANGED <<debug_build, traceVars, renderVars, cameraVars, bvhVars>>

\* the fold of bvh.rs 53-57: the union becomes the next self
BoundsFold ==
    /\ box_op = "union"
    /\ box_self # box_union
    /\ box_self' = box_union
    /\ box_op' = "start"
    /\ UNCHANGED <<corner_a, corner_b, box_other, box_union, box_extent>>
    /\ UNCHANGED <<debug_build, traceVars, renderVars, cameraVars, bvhVars>>

\* self.maximum_extent()
BoundsMaximumExtent ==
    /\ box_op = "start"
    /\ box_extent' = MaximumExtent(box_self)
    /\ box_op' = "extent"
    /\ UNCHANGED <<corner_a, corner_b, box_self, box_other, box_union>>
    /\ UNCHANGED <<debug_build, traceVars, renderVars, cameraVars, bvhVars>>

NextBounds ==
    BoundsNew \/ BoundsPoint \/ BoundsUnion \/ BoundsFold \/ BoundsMaximumExtent

SpecBounds == InitBounds /\ [][NextBounds]_vars

Boxes == { Bounds3New(p, q) : p \in Points, q \in Points }
Contains(box, p) == \A i \in Axes : box.min[i] <= p[i] /\ p[i] <= box.max[i]
PointsOf(box) == { p \in Points : Contains(box, p) }
WellFormed(box) == \A i \in Axes : box.min[i] <= box.max[i]

(***************************************************************************)
(* C9.  A.union(B) is the smallest enclosing box: on every axis its min is *)
(* the smaller of the two mins and its max the larger of the two maxes; it *)
(* contains every point of A and of B and no smaller box does; union is    *)
(* commutative, associative and idempotent.                                *)
(***************************************************************************)
C9_UnionIsSmallestEnclosingBox ==
    box_op = "union" =>
        LET both == PointsOf(box_self) \cup PointsOf(box_other)
            joined == PointsOf(box_union)
        IN  /\ \A i \in Axes :
                  /\ box_union.min[i] = Min(box_self.min[i], box_other.min[i])
                  /\ box_union.max[i] = Max(box_self.max[i], box_other.max[i])
            /\ both \subseteq joined
            /\ \A c \in Boxes : both \subseteq PointsOf(c) => joined \subseteq PointsOf(c)
            /\ Bounds3Union(box_other, box_self) = box_union
            /\ Bounds3Union(box_union, box_union) = box_union
            /\ \A c \in Boxes :
                  Bounds3Union(box_union, c)
                      = Bounds3Union(box_self, Bounds3Union(box_other, c))

\* Two boxes neither of which contains the other have been joined.
C9_Witness ==
    /\ box_op = "union"
    /\ box_union # box_self /\ box_union # box_other
    /\ \E i \in Axes : box_self.min[i] < box_other.min[i]
    /\ \E i \in Axes : box_self.max[i] < box_other.max[i]
    /\ \E i \in Axes : box_other.min[i] < box_self.min[i]

(***************************************************************************)
(* C10.  Every Bounds3 reachable through new, point and union has          *)
(* min <= max on each axis, and Bounds3::new(a, b) is the same box as      *)
(* Bounds3::new(b, a).                                                     *)
(***************************************************************************)
C10_BoxesWellFormed ==
    /\ WellFormed(box_self) /\ WellFormed(box_other) /\ WellFormed(box_union)
    /\ box_op = "new" =>
          /\ box_other = Bounds3New(corner_b, corner_a)
          /\ Contains(box_other, corner_a) /\ Contains(box_other, corner_b)

\* new was given its corners the other way round (a above b on one axis, below
\* on another), and the result was joined with another box.
C10_Witness ==
    /\ box_op = "union"
    /\ box_other = Bounds3New(corner_a, corner_b)
    /\ \E i \in Axes : corner_a[i] > corner_b[i]
    /\ \E i \in Axes : corner_a[i] < corner_b[i]
    /\ box_union # box_self

(***************************************************************************)
(* C16.  maximum_extent returns X exactly when the diagonal's x component  *)
(* is strictly greater than both y and z, otherwise Y exactly when y is    *)
(* strictly greater than z, otherwise Z; the returned axis is one on which *)
(* the box is at least as long as on the other two.                        *)
(***************************************************************************)
C16_MaximumExtent ==
    box_op = "extent" =>
        LET d == [i \in Axes |-> box_self.max[i] - box_self.min[i]]
            x_wins == d[X] > d[Y] /\ d[X] > d[Z]
        IN  /\ box_extent \in Axes
            /\ box_extent = X <=> x_wins
            /\ box_extent = Y <=> (~x_wins /\ d[Y] > d[Z])
            /\ box_extent = Z <=> (~x_wins /\ ~(d[Y] > d[Z]))
            /\ \A i \in Axes : d[box_extent] >= d[i]

\* x ties with y above z: the tie goes to Y.
C16_Witness ==
    /\ box_op = "extent" /\ box_extent = Y
    /\ box_self.max[X] - box_self.min[X] = box_self.max[Y] - box_self.min[Y]
    /\ box_self.max[Y] - box_self.min[Y] > box_self.max[Z] - box_self.min[Z]

(***************************************************************************)
(* SpecSlab: one call of Bounds3::hit_by, one axis of its loop per step.   *)
(***************************************************************************)
SlabOrigins == { <<x, y, z>> : x \in {-1, 1}, y \in {-1, 0}, z \in {0, 2} }

SlabDirections ==
    { <<1, 0, 0>>, <<-1, 0, 0>>, <<0, 1, 0>>, <<0, 0, -1>>, <<1, 1, 0>>,
      <<1, -1, 0>>, <<0, 1, 1>>, <<1, 0, -1>>, <<1, 1, 1>>, <<-1, 1, -1>> }

SlabRays == { [origin |-> o, direction |-> d] : o \in SlabOrigins, d \in SlabDirections }

SlabTMins == {0, 1}
SlabTMaxs == {1, 3, Infinity}

\* entry of hit_by: t_interval = [t_min, t_max], the loop about to take X
InitSlab ==
    /\ TraceIdle
    /\ debug_build = FALSE
    /\ RenderIdle /\ CameraIdle /\ BoundsIdle
    /\ scene = <<>> /\ bvh = Unbuilt /\ bvh_result = None /\ scan_result = None
    /\ ScanIdle
    /\ slab_box \in { Bounds3New(p, q) : p \in Points, q \in Points }
    /\ ray \in { Some(r) : r \in SlabRays }
    /\ t_min \in SlabTMins /\ t_max \in SlabTMaxs
    /\ slab_interval = [start |-> t_min, end |-> t_max]
    /\ slab_axis = X
    /\ slab_result = None

\* one turn of `for axis in [X, Y, Z]`
SlabTurn ==
    /\ slab_result = None /\ slab_axis \in Axes
    /\ LET turn == HitByAxis(slab_box, Unwrap(ray), slab_interval, slab_axis) IN
       IF turn.returned
       THEN /\ slab_result' = Some(FALSE)
            /\ UNCHANGED <<slab_interval, slab_axis>>
       ELSE /\ slab_interval' = turn.t_interval
            /\ slab_axis' = slab_axis + 1
            /\ UNCHANGED slab_result
    /\ UNCHANGED <<scene, bvh, ray, t_min, t_max, bvh_result, scan_result, slab_box, scanVars>>
    /\ UNCHANGED <<debug_build, traceVars, renderVars, cameraVars, boundsVars>>

\* !t_interval.is_empty()
SlabReturn ==
    /\ slab_result = None /\ slab_axis = Z + 1
    /\ slab_result' = Some(~IntervalIsEmpty(slab_interval))
    /\ UNCHANGED <<scene, bvh, ray, t_min, t_max, bvh_result, scan_result,
                   slab_box, slab_interval, slab_axis, scanVars>>
    /\ UNCHANGED <<debug_build, traceVars, renderVars, cameraVars, boundsVars>>

NextSlab == SlabTurn \/ SlabReturn

SpecSlab == InitSlab /\ [][NextSlab]_vars

\* The ray runs parallel to the slab of axis a and outside it.
ParallelOutside(a) ==
    /\ Unwrap(ray).direction[a] = 0
    /\ Unwrap(ray).origin[a] < slab_box.min[a] \/ Unwrap(ray).origin[a] > slab_box.max[a]

\* The parameter at which the ray meets the plane of coordinate c of axis a
\* (direction components are 1 or -1 there).
Crossing(a, c) == (c - Unwrap(ray).origin[a]) * Unwrap(ray).direction[a]

Moving == { a \in Axes : Unwrap(ray).direction[a] # 0 }

Starts ==
    {t_min} \cup { Min(Crossing(a, slab_box.min[a]), Crossing(a, slab_box.max[a])) : a \in Moving }

Ends ==
    {t_max} \cup { Max(Crossing(a, slab_box.min[a]), Crossing(a, slab_box.max[a])) : a \in Moving }

\* The ray mirrored in the middle plane of the box on axis a: the same
\* crossings, met in the other order.
Mirrored(a) ==
    [origin |-> [i \in Axes |-> IF i = a
                                THEN slab_box.min[a] + slab_box.max[a] - Unwrap(ray).origin[a]
                                ELSE Unwrap(ray).origin[i]],
     direction |-> [i \in Axes |-> IF i = a THEN -Unwrap(ray).direction[a]
                                   ELSE Unwrap(ray).direction[i]]]

(***************************************************************************)
(* C17.  hit_by returns true exactly when the origin lies within           *)
(* [min, max] on every axis where the direction is zero and the            *)
(* intersection of [t_min, t_max] with the crossing intervals of the other *)
(* axes has start < end; the sign of a direction component does not change *)
(* the result.                                                             *)
(***************************************************************************)
C17_HitBySemantics ==
    IsSome(slab_result) =>
        /\ Unwrap(slab_result) <=>
              /\ \A a \in Axes : ~ParallelOutside(a)
              /\ \A s \in Starts : \A e \in Ends : s < e
        /\ Unwrap(slab_result) = HitBy(slab_box, Unwrap(ray), t_min, t_max)
        /\ \A a \in Axes :
              HitBy(slab_box, Mirrored(a), t_min, t_max) = Unwrap(slab_result)

\* A ray that meets a box of positive extent from its max side on x, and is
\* reported to hit it.
C17_Witness ==
    /\ slab_result = Some(TRUE)
    /\ Unwrap(ray).direction[X] = -1 /\ Unwrap(ray).direction[Y] = 0
    /\ Crossing(X, slab_box.max[X]) < Crossing(X, slab_box.min[X])
    /\ slab_interval.end < t_max

(***************************************************************************)
(* C18.  Once the processing of an axis has made a miss certain (the ray   *)
(* is parallel to the slab and outside it, or the running interval has     *)
(* become empty), hit_by returns false without testing any later axis.     *)
(***************************************************************************)
C18_EarlyExitOnFirstMiss ==
    (slab_result = None /\ t_min < t_max /\ slab_axis \in Axes)
        => ~IntervalIsEmpty(slab_interval)

(***************************************************************************)
(* C18, amended.  hit_by leaves its loop early only at the first axis on   *)
(* which the ray is parallel to the slab and outside it, and then tests no *)
(* later axis.  When the running interval becomes empty the loop goes on   *)
(* through the remaining axes, and the result is false.                    *)
(***************************************************************************)
C18_EarlyExitOnParallelMiss ==
    /\ \A a \in Axes : ParallelOutside(a) => slab_axis <= a
    /\ (slab_result = Some(FALSE) /\ slab_axis \in Axes) => ParallelOutside(slab_axis)
    /\ slab_result = Some(TRUE) => slab_axis = Z + 1
    /\ IntervalIsEmpty(slab_interval) => slab_result # Some(TRUE)
    /\ (IsSome(slab_result) /\ \A a \in Axes : ~ParallelOutside(a)) => slab_axis = Z + 1

\* The x axis emptied the running interval, y and z were still processed,
\* and the call returned false after the loop.
C18_Witness ==
    /\ slab_result = Some(FALSE) /\ slab_axis = Z + 1
    /\ t_min < t_max
    /\ Unwrap(ray).direction[X] # 0
    /\ IntervalIsEmpty(HitByAxis(slab_box, Unwrap(ray),
                                 [start |-> t_min, end |-> t_max], X).t_interval)

(***************************************************************************)
(* SpecScan: one linear scan of a list of primitives, one object of the    *)
(* loop per step.                                                          *)
(***************************************************************************)
ScanRays ==
    { [origin |-> <<-4, 0, 0>>, direction |-> <<1, 0, 0>>],
      [origin |-> <<-4, 2, 0>>, direction |-> <<1, 0, 0>>],
      [origin |-> <<0, 0, 0>>, direction |-> <<1, 0, 0>>],
      [origin |-> <<3, 0, 0>>, direction |-> <<-1, 0, 0>>],
      [origin |-> <<0, 0, -4>>, direction |-> <<0, 0, 1>>] }

\* entry of hit: result = None, closest_so_far = t_max
InitScan ==
    /\ TraceIdle
    /\ debug_build = FALSE
    /\ RenderIdle /\ CameraIdle /\ BoundsIdle
    /\ SlabIdle
    /\ bvh = Unbuilt /\ bvh_result = None
    /\ scene \in Scenes
    /\ ray \in { Some(r) : r \in ScanRays }
    /\ \A k \in 1..Len(scene) : ExactHit(scene[k], Unwrap(ray))
    /\ t_min \in TMins /\ t_max \in TMaxs
    /\ scan_result = None
    /\ closest_so_far = t_max
    /\ scan_i = 1

\* one turn of `for object in self.iter()`
ScanTurn ==
    /\ scan_i \in 1..Len(scene)
    /\ LET turn == ScanItem(scene[scan_i], Unwrap(ray), t_min, closest_so_far, scan_result) IN
       /\ closest_so_far' = turn.closest_so_far
       /\ scan_result' = turn.result
    /\ scan_i' = scan_i + 1
    /\ UNCHANGED <<scene, bvh, ray, t_min, t_max, bvh_result, slabVars>>
    /\ UNCHANGED <<debug_build, traceVars, renderVars, cameraVars, boundsVars>>

SpecScan == InitScan /\ [][ScanTurn]_vars

ScanDone == scan_i = Len(scene) + 1

\* What primitive k returns when asked alone in the whole window.
HitAlone(k) == SphereHit(scene[k], Unwrap(ray), t_min, t_max)

(***************************************************************************)
(* C20.  The linear scan returns the closest hit within the window: the    *)
(* returned t lies in [t_min, t_max] and no primitive of the list has a    *)
(* hit in the window with a smaller t; it returns no hit exactly when no   *)
(* primitive has one.  closest_so_far starts at t_max and never increases. *)
(***************************************************************************)
C20_ScanReturnsClosest ==
    /\ [](ScanDone =>
            /\ IsSome(scan_result) =>
                  /\ t_min <= Unwrap(scan_result).t /\ Unwrap(scan_result).t <= t_max
                  /\ \A k \in 1..Len(scene) :
                        IsSome(HitAlone(k)) => Unwrap(scan_result).t <= Unwrap(HitAlone(k)).t
                  /\ \E k \in 1..Len(scene) : HitT(HitAlone(k)) = HitT(scan_result)
            /\ scan_result = None <=> \A k \in 1..Len(scene) : HitAlone(k) = None
            /\ scan_result = ItemsHit(scene, Unwrap(ray), t_min, t_max))
    /\ [](scan_i = 1 => closest_so_far = t_max)
    /\ [](closest_so_far <= t_max)
    /\ [][closest_so_far' <= closest_so_far]_vars

\* A scan of three primitives that found a hit, then a nearer one, and then
\* an object that has a hit in the window but none nearer.
C20_Witness ==
    /\ ScanDone /\ Len(scene) = 3 /\ IsSome(scan_result)
    /\ IsSome(HitAlone(1)) /\ IsSome(HitAlone(2)) /\ IsSome(HitAlone(3))
    /\ Unwrap(HitAlone(2)).t < Unwrap(HitAlone(1)).t
    /\ Unwrap(HitAlone(2)).t < Unwrap(HitAlone(3)).t
    /\ closest_so_far = Unwrap(HitAlone(2)).t /\ closest_so_far < t_max

(***************************************************************************)
(* SpecSphere: one call of Sphere::hit.  The receiver is scene[1], the     *)
(* arguments are ray, t_min and t_max.  A debug build aborts the call when *)
(* an assertion on the texture coordinate fails.                           *)
(***************************************************************************)
SphereTMins == TMins \cup {3, 7}

InitSphere ==
    /\ debug_build \in BOOLEAN
    /\ RenderIdle /\ CameraIdle /\ BoundsIdle
    /\ SlabIdle /\ ScanIdle /\ ColorIdle
    /\ bvh = Unbuilt /\ bvh_result = None /\ scan_result = None
    /\ scene \in { <<s>> : s \in Primitives }
    /\ ray \in { Some(r) : r \in Rays }
    /\ ExactHit(scene[1], Unwrap(ray))
    /\ t_min \in SphereTMins /\ t_max \in TMaxs
    /\ sphere_pc = "call" /\ sphere_result = None

\* the call returns None or Some(hit)
SphereHitReturn ==
    /\ sphere_pc = "call"
    /\ LET h == SphereHit(scene[1], Unwrap(ray), t_min, t_max) IN
       /\ debug_build /\ IsSome(h) => TextureCoordAsserts(scene[1], Unwrap(h))
       /\ sphere_result' = h
    /\ sphere_pc' = "returned"
    /\ UNCHANGED <<debug_build, renderVars, cameraVars, boundsVars, bvhVars, colorVars>>

\* a debug assertion on phi, theta, u or v fails
SphereHitPanic ==
    /\ sphere_pc = "call"
    /\ debug_build
    /\ LET h == SphereHit(scene[1], Unwrap(ray), t_min, t_max) IN
       IsSome(h) /\ ~TextureCoordAsserts(scene[1], Unwrap(h))
    /\ sphere_pc' = "panicked"
    /\ UNCHANGED sphere_result
    /\ UNCHANGED <<debug_build, renderVars, cameraVars, boundsVars, bvhVars, colorVars>>

NextSphere == SphereHitReturn \/ SphereHitPanic

SpecSphere == InitSphere /\ [][NextSphere]_vars

\* The parameters at which the ray meets the surface of the sphere: the
\* roots of the quadratic, found by substitution rather than by formula.
OnSphere(t) ==
    NormSquared(VecSub(RayAt(Unwrap(ray), t), scene[1].center))
        = scene[1].radius * scene[1].radius
Roots == { t \in -16..16 : OnSphere(t) }
SmallerRoot == CHOOSE t \in Roots : \A u \in Roots : t <= u
LargerRoot == CHOOSE t \in Roots : \A u \in Roots : u <= t
InWindow(t) == t_min <= t /\ t <= t_max
SphereReturned == sphere_pc = "returned"

(***************************************************************************)
(* C21.  Sphere::hit selects its root in a fixed order: a call that        *)
(* returns gives no hit when the ray has no root (negative discriminant),  *)
(* the smaller root when it lies in [t_min, t_max], otherwise the larger   *)
(* root when that lies in [t_min, t_max], otherwise no hit.  A returned    *)
(* hit has t_min <= t <= t_max, and the larger root is returned only when  *)
(* the smaller one is outside the window.                                  *)
(***************************************************************************)
C21_RootOrder ==
    SphereReturned =>
        /\ Roots = {} => sphere_result = None
        /\ Roots # {} /\ InWindow(SmallerRoot) =>
              IsSome(sphere_result) /\ Unwrap(sphere_result).t = SmallerRoot
        /\ Roots # {} /\ ~InWindow(SmallerRoot) /\ InWindow(LargerRoot) =>
              IsSome(sphere_result) /\ Unwrap(sphere_result).t = LargerRoot
        /\ Roots # {} /\ ~InWindow(SmallerRoot) /\ ~InWindow(LargerRoot) =>
              sphere_result = None
        /\ IsSome(sphere_result) =>
              /\ InWindow(Unwrap(sphere_result).t)
              /\ Unwrap(sphere_result).t \in Roots
              /\ Unwrap(sphere_result).t # SmallerRoot => ~InWindow(SmallerRoot)

\* A call that returned the larger of two distinct roots, the smaller one
\* lying in front of the ray origin but below t_min.
C21_Witness ==
    /\ SphereReturned /\ IsSome(sphere_result)
    /\ Unwrap(sphere_result).t = LargerRoot /\ SmallerRoot < LargerRoot
    /\ 0 < SmallerRoot /\ SmallerRoot < t_min

(***************************************************************************)
(* C22.  Every Hit returned by Sphere::hit has its normal oriented against *)
(* the incoming ray: face is Front and normal is the outward normal        *)
(* exactly when the outward normal strictly opposes the ray direction      *)
(* (dot < 0); otherwise face is Back and normal is the negated outward     *)
(* normal.  In both cases the dot product of the ray direction and the     *)
(* returned normal is <= 0.                                                *)
(***************************************************************************)
C22_NormalAgainstRay ==
    SphereReturned /\ IsSome(sphere_result) =>
        LET hit == Unwrap(sphere_result)
            outward == VecSub(RayAt(Unwrap(ray), hit.t), scene[1].center)
            d == Dot(Unwrap(ray).direction, outward)
        IN  /\ hit.face \in {"Front", "Back"}
            /\ hit.face = "Front" <=> d < 0
            /\ hit.face = "Front" => hit.normal = outward
            /\ hit.face = "Back" => hit.normal = VecNeg(outward)
            /\ Dot(Unwrap(ray).direction, hit.normal) <= 0

\* A hit from inside the sphere: the outward normal points along the ray,
\* the face is Back and the returned normal is the negated one.
C22_Witness ==
    /\ SphereReturned /\ IsSome(sphere_result)
    /\ Unwrap(sphere_result).face = "Back"
    /\ Dot(Unwrap(ray).direction,
           VecSub(Unwrap(sphere_result).point, scene[1].center)) > 0
    /\ Dot(Unwrap(ray).direction, Unwrap(sphere_result).normal) < 0

(***************************************************************************)
(* SpecColor: one call of ray_color, frame by frame.  rc_depth and rc_ray  *)
(* are the arguments of the innermost call and rc_hit is what its scene    *)
(* query returned; rc_stack holds what each calling frame keeps across its *)
(* recursive call (its emittance and the attenuation of its scatter);      *)
(* rc_queries counts the calls of world.hit.  The world is the Bvh built   *)
(* from scene.  A scattered ray is followed when it stays on the grid: its *)
(* direction has an integral length and its roots with every sphere of the *)
(* scene are integral.                                                     *)
(***************************************************************************)
ColorPrimitives ==
    { SphereWith(c, 2, m) :
        c \in { <<0, 0, 0>>, <<8, 0, 0>> },
        m \in { Lambertian(White), Metal(White, 0), Light(4, White) } }

ColorScenes == UNION { [1..n -> ColorPrimitives] : n \in 0..2 }

ColorRays ==
    { [origin |-> <<4, 0, 0>>, direction |-> d] :
        d \in { <<1, 0, 0>>, <<-1, 0, 0>>, <<0, 1, 0>>, <<0, -1, 0>>, <<0, 0, 1>> } }
    \cup { [origin |-> <<-4, 2, 0>>, direction |-> <<1, 0, 0>>] }

OnGrid(items, r) ==
    /\ r.direction # VecOrigin
    /\ IsSquare(NormSquared(r.direction))
    /\ \A k \in 1..Len(items) : ExactHit(items[k], r)

\* world.hit(ray, 0.001, f64::INFINITY): the least parameter of the grid
\* above 0.001 is 1
WorldHit(r) == BvhHit(bvh, r, 1, Infinity)

\* the gradient from white to blue along unit_direction.y
Background(r) ==
    LET unit_y == Div(r.direction[Y], Sqrt(NormSquared(r.direction)))
        t2 == unit_y + 1
    IN  [i \in Axes |-> Div((2 - t2) * White[i] + t2 * Blue[i], 2)]

InitColor ==
    /\ debug_build = FALSE
    /\ RenderIdle /\ CameraIdle /\ BoundsIdle
    /\ SlabIdle /\ ScanIdle /\ SphereIdle
    /\ scene \in ColorScenes
    /\ bvh = BvhFrom(scene) /\ bvh.kind # "Panic"
    /\ ray = None /\ t_min = 0 /\ t_max = 0 /\ bvh_result = None /\ scan_result = None
    /\ rc_ray \in { Some(r) : r \in ColorRays }
    /\ OnGrid(scene, Unwrap(rc_ray))
    /\ rc_max_depth \in 0..MaxDepth
    /\ rc_depth = rc_max_depth
    /\ rc_pc = "call" /\ rc_hit = None
    /\ rc_stack = <<>> /\ rc_queries = 0 /\ rc_value = Black

ColorFrame == <<debug_build, renderVars, cameraVars, boundsVars, bvhVars, sphereVars, rc_max_depth>>

\* if depth == 0 { return black }
RayColorDepthZero ==
    /\ rc_pc = "call" /\ rc_depth = 0
    /\ rc_value' = Black
    /\ rc_pc' = "return"
    /\ UNCHANGED <<rc_depth, rc_ray, rc_hit, rc_stack, rc_queries>>
    /\ UNCHANGED ColorFrame

\* world.hit(ray, 0.001, f64::INFINITY)
RayColorQuery ==
    /\ rc_pc = "call" /\ rc_depth # 0
    /\ rc_hit' = WorldHit(Unwrap(rc_ray))
    /\ rc_queries' = rc_queries + 1
    /\ rc_pc' = "match"
    /\ UNCHANGED <<rc_depth, rc_ray, rc_stack, rc_value>>
    /\ UNCHANGED ColorFrame

\* the query returned None: the background gradient
RayColorMiss ==
    /\ rc_pc = "match" /\ rc_hit = None
    /\ rc_value' = Background(Unwrap(rc_ray))
    /\ rc_pc' = "return"
    /\ UNCHANGED <<rc_depth, rc_ray, rc_hit, rc_stack, rc_queries>>
    /\ UNCHANGED ColorFrame

\* material.scatter is None: the emittance
RayColorAbsorb ==
    /\ rc_pc = "match" /\ IsSome(rc_hit)
    /\ \E rnd \in RandomUnits :
          Scatter(Unwrap(rc_hit).material, rnd, Unwrap(rc_ray), Unwrap(rc_hit)) = None
    /\ rc_value' = Emit(Unwrap(rc_hit).material)
    /\ rc_pc' = "return"
    /\ rc_hit' = None
    /\ UNCHANGED <<rc_depth, rc_ray, rc_stack, rc_queries>>
    /\ UNCHANGED ColorFrame

RayColorScatterKeepsDepth ==
    /\ rc_pc = "match" /\ IsSome(rc_hit)
    /\ \E rnd \in RandomUnits :
          LET scatter == Scatter(Unwrap(rc_hit).material, rnd, Unwrap(rc_ray), Unwrap(rc_hit)) IN
          /\ IsSome(scatter)
          /\ OnGrid(scene, Unwrap(scatter).outgoing)
          /\ rc_stack' = Append(rc_stack, [emittance |-> Emit(Unwrap(rc_hit).material),
                                           attenuation |-> Unwrap(scatter).attenuation])
          /\ rc_ray' = Some(Unwrap(scatter).outgoing)
    /\ rc_depth' = rc_depth
    /\ rc_pc' = "call"
    /\ rc_hit' = None
    /\ UNCHANGED <<rc_queries, rc_value>>
    /\ UNCHANGED ColorFrame

\* material.scatter is Some: ray_color(rng, &scatter.outgoing, world, depth - 1)
RayColorScatter ==
    /\ rc_pc = "match" /\ IsSome(rc_hit)
    /\ \E rnd \in RandomUnits :
          LET scatter == Scatter(Unwrap(rc_hit).material, rnd, Unwrap(rc_ray), Unwrap(rc_hit)) IN
          /\ IsSome(scatter)
          /\ OnGrid(scene, Unwrap(scatter).outgoing)
          /\ rc_stack' = Append(rc_stack, [emittance |-> Emit(Unwrap(rc_hit).material),
                                           attenuation |-> Unwrap(scatter).attenuation])
          /\ rc_ray' = Some(Unwrap(scatter).outgoing)
    /\ rc_depth' = rc_depth - 1
    /\ rc_pc' = "call"
    /\ rc_hit' = None
    /\ UNCHANGED <<rc_queries, rc_value>>
    /\ UNCHANGED ColorFrame

\* the recursive call returns: emittance + scatter.attenuation * (its value)
RayColorReturn ==
    /\ rc_pc = "return" /\ rc_stack # <<>>
    /\ LET frame == rc_stack[Len(rc_stack)] IN
       rc_value' = ColorAdd(frame.emittance, ColorMul(frame.attenuation, rc_value))
    /\ rc_stack' = SubSeq(rc_stack, 1, Len(rc_stack) - 1)
    /\ rc_depth' = rc_depth + 1
    /\ UNCHANGED <<rc_pc, rc_ray, rc_hit, rc_queries>>
    /\ UNCHANGED ColorFrame

\* the outermost call returns to get_pixel_color
RayColorDone ==
    /\ rc_pc = "return" /\ rc_stack = <<>>
    /\ rc_pc' = "done"
    /\ UNCHANGED <<rc_depth, rc_ray, rc_hit, rc_stack, rc_queries, rc_value>>
    /\ UNCHANGED ColorFrame

NextColor ==
    \/ RayColorDepthZero
    \/ RayColorQuery
    \/ RayColorMiss
    \/ RayColorAbsorb
    \/ RayColorScatter
    \/ RayColorReturn
    \/ RayColorDone

\* The thread that called ray_color keeps running.
SpecColor == InitColor /\ [][NextColor]_vars /\ WF_vars(NextColor)

\* What the frame at the top did, seen from outside.
RcScatters(rnd) == Scatter(Unwrap(rc_hit).material, rnd, Unwrap(rc_ray), Unwrap(rc_hit))
RcRecursed ==
    /\ Len(rc_stack') = Len(rc_stack) + 1
    /\ rc_pc' = "call"
RcReturned ==
    /\ rc_pc' = "return"
    /\ rc_stack' = rc_stack /\ rc_depth' = rc_depth /\ rc_queries' = rc_queries

\* A call starts: depth 0 returns black at once, depth d > 0 asks the scene.
RcCallStep ==
    /\ rc_depth = 0 => RcReturned /\ rc_value' = Black
    /\ rc_depth > 0 =>
          /\ rc_pc' = "match"
          /\ rc_queries' = rc_queries + 1
          /\ rc_stack' = rc_stack /\ rc_depth' = rc_depth

\* The answer of the scene is used: a recursive call only after a scatter.
RcMatchStep ==
    /\ RcRecursed \/ RcReturned
    /\ rc_queries' = rc_queries
    /\ RcRecursed =>
          /\ rc_depth' = rc_depth - 1
          /\ IsSome(rc_hit)
          /\ \E rnd \in RandomUnits :
                /\ IsSome(RcScatters(rnd))
                /\ rc_ray' = Some(Unwrap(RcScatters(rnd)).outgoing)
    /\ RcReturned /\ rc_hit = None =>
          rc_value' = Background(Unwrap(rc_ray))
    /\ RcReturned /\ IsSome(rc_hit) =>
          /\ rc_value' = Emit(Unwrap(rc_hit).material)
          /\ \E rnd \in RandomUnits : RcScatters(rnd) = None

\* A frame whose work is done: no query and no further call.
RcReturnStep ==
    /\ rc_queries' = rc_queries
    /\ Len(rc_stack') <= Len(rc_stack)
    /\ rc_pc' \in {"return", "done"}

(***************************************************************************)
(* C23.  ray_color is bounded recursion on depth: a call with depth 0      *)
(* returns black without querying the scene; a call with depth d > 0 makes *)
(* one scene query and at most one recursive call, with depth d - 1, and   *)
(* only when the material scattered; it returns the emittance alone when   *)
(* the material does not scatter and the background gradient when the ray  *)
(* hits nothing.  Every call terminates, after at most d scene queries.    *)
(***************************************************************************)
C23_BoundedRecursion ==
    /\ [][rc_pc = "call" => RcCallStep]_vars
    /\ [][rc_pc = "match" => RcMatchStep]_vars
    /\ [][rc_pc = "return" => RcReturnStep]_vars
    /\ [](rc_queries <= rc_max_depth)
    /\ [](rc_depth + Len(rc_stack) = rc_max_depth)
    /\ [](rc_pc = "match" => rc_hit = WorldHit(Unwrap(rc_ray)))
    /\ [](rc_pc = "done" /\ rc_max_depth = 0 => rc_value = Black /\ rc_queries = 0)
    /\ <>(rc_pc = "done")

\* The recursion ran out of depth: MaxDepth frames each made their query and
\* scattered, and the innermost call, with depth 0, returned black.
C23_Witness ==
    /\ rc_pc = "return" /\ rc_depth = 0 /\ rc_value = Black
    /\ rc_max_depth = MaxDepth /\ Len(rc_stack) = MaxDepth /\ rc_queries = MaxDepth

(***************************************************************************)
(* The dispatcher without workers (num_threads = 0).                       *)
(***************************************************************************)
ZeroWorkers == num_threads = 0 /\ image_height >= 1

\* Every row index is in the work queue, in order, and nobody took one.
AllRowsQueued == inputs = [y \in 1..image_height |-> y - 1]

\* Both queues are closed: the work queue has lost its sender, the results
\* queue has no sender left and holds nothing.
QueuesClosed == ~inputs_open /\ ~OutputsConnected /\ outputs = <<>>

\* main has failed on assert!(rows_remaining == 0) with no row received.
AbortedOnAssert ==
    /\ main_pc = "panicked"
    /\ next_y = image_height /\ AllRowsQueued /\ QueuesClosed
    /\ data = <<>> /\ rows_remaining = image_height
    /\ image = <<>> /\ ~written

\* In the drain loop: what it finds, and its one step.
DrainFindsNothing == main_pc = "drain" => AllRowsQueued /\ QueuesClosed /\ data = <<>>
DrainEndsAtOnce == main_pc = "drain" => main_pc' = "panicked" /\ data' = <<>>
NothingWritten == ~written /\ main_pc # "write"

(***************************************************************************)
(* C25.  With a worker count of zero and image_height >= 1 the dispatcher  *)
(* does not block forever waiting for results: all row indices are         *)
(* enqueued, both queues are closed when the set-up block ends, the drain  *)
(* loop ends at once with zero rows received, and the render aborts on     *)
(* assert!(rows_remaining == 0) without writing an image.                  *)
(***************************************************************************)
C25_ZeroWorkersAbort ==
    /\ [](ZeroWorkers => DrainFindsNothing /\ NothingWritten)
    /\ [][ZeroWorkers => DrainEndsAtOnce]_vars
    /\ ZeroWorkers => <>AbortedOnAssert

\* The build has no overflow checks, or image_width - 1 does not overflow.
ZeroWorkersSetUp == ZeroWorkers /\ (image_width >= 1 \/ ~debug_build)

(***************************************************************************)
(* C25, amended.  The same, when image_width >= 1 or the build has no      *)
(* overflow checks (otherwise main fails on image_width - 1 before a row   *)
(* is enqueued).                                                           *)
(***************************************************************************)
C25_ZeroWorkersAbortWidthPositive ==
    /\ [](ZeroWorkersSetUp => DrainFindsNothing /\ NothingWritten)
    /\ [][ZeroWorkersSetUp => DrainEndsAtOnce]_vars
    /\ ZeroWorkersSetUp => <>AbortedOnAssert

\* No worker, several rows: all of them are still queued, both queues are
\* closed and main has failed on the assertion.
C25_Witness ==
    /\ num_threads = 0 /\ image_height >= 2 /\ image_width >= 1
    /\ AbortedOnAssert

====
